---- MODULE Spec2Model ----
(***************************************************************************)
(* Model of the notebooks of pateldhairya0328/Notebooks.                   *)
(*                                                                         *)
(*   1-Getting_Started_with_TF_SEAL.ipynb                                  *)
(*       the TF SEAL cells (key generation, addition, multiplication)      *)
(*       the Xamarin page MainPage (step-by-step cells and the final file) *)
(*       the C# programs that time 1000 encode/encrypt/decrypt/decode      *)
(*       round trips and report the average                                *)
(*   2-Logistic_Regression_and_TF_SEAL_Performance.ipynb                   *)
(*       sigmoid, tf_log_reg, the set-up cell and the timed session cell   *)
(*                                                                         *)
(* Numbers are fixed-point integers.  A matrix is a sequence of rows.  A   *)
(* tf_seal tensor is a record [val, dec]: val is the matrix it encrypts,   *)
(* dec is what decryption gives back (CKKS is an approximate scheme, so    *)
(* dec = val + noise).  A notebook cell is one action.  Every statement    *)
(* is also recorded with who performs it (TF SEAL / SEAL, another library, *)
(* or the code itself) and the kinds of value it is handed.                *)
(***************************************************************************)
EXTENDS Integers, Sequences, FiniteSets, TLC

\* ---------------------------------------------------------------- bounds
MaxVal == 1        \* entries of the random matrices lie in -MaxVal..MaxVal
MaxNoise == 1      \* CKKS noise of one encrypted entry lies in -MaxNoise..MaxNoise
MaxTick == 2       \* CPU time one sess.run consumes, in clock ticks, 1..MaxTick
TicksPerMicro == 2 \* clock ticks per microsecond

Vals == (0 - MaxVal)..MaxVal
Noise == (0 - MaxNoise)..MaxNoise

\* ---------------------------------------------------------------- matrices
None == <<>>

Abs(x) == IF x < 0 THEN 0 - x ELSE x

Rows(M) == Len(M)
Cols(M) == Len(M[1])

RECURSIVE Dot(_, _, _)
Dot(u, v, k) == IF k = 0 THEN 0 ELSE u[k] * v[k] + Dot(u, v, k - 1)

Column(M, j) == [i \in 1..Rows(M) |-> M[i][j]]

\* numpy.ndarray.transpose
Transpose(M) == [j \in 1..Cols(M) |-> Column(M, j)]

\* tf.matmul(x, y): the ordinary matrix product; a shape mismatch raises
TfMatmul(x, y) ==
    IF Cols(x) # Rows(y) THEN None
    ELSE [i \in 1..Rows(x) |-> [j \in 1..Cols(y) |-> Dot(x[i], Column(y, j), Cols(x))]]

\* mutant: np.zeros in place of np.ones
Zeros(r, c) == [i \in 1..r |-> [j \in 1..c |-> 0]]

\* np.ones((r, c))
Ones(r, c) == [i \in 1..r |-> [j \in 1..c |-> 1]]

MatAdd(x, y) == [i \in 1..Rows(x) |-> [j \in 1..Cols(x) |-> x[i][j] + y[i][j]]]

\* the positions of the nonzero entries of M
Support(M) == {p \in (1..Rows(M)) \X (1..Cols(M)) : M[p[1]][p[2]] # 0}

\* The r x c matrices over S that are explored: all of them up to two
\* entries; for larger shapes those with at most one nonzero entry, which
\* ranges over all of S at every position (the matrix product is bilinear,
\* and these matrices span all matrices).
Sample(r, c, S) ==
    IF r * c <= 2 THEN [1..r -> [1..c -> S]]
    ELSE {M \in [1..r -> [1..c -> S]] : Cardinality(Support(M)) <= 1}

\* the values np.random.normal(size=(r, c)).astype(np.float32) can return
RandomNormal(r, c) == Sample(r, c, Vals)

\* the noise CKKS encryption can add to an r x c matrix
NoiseOf(r, c) == Sample(r, c, Noise)

\* ---------------------------------------------------------------- tf_seal
\* tfs.constant(plain, secret_key, public_keys): encrypts plain
TfsConstant(plain, noise) == [val |-> plain, dec |-> MatAdd(plain, noise)]

\* tfs.matmul(x, y), y a plaintext array.  tf_seal expects the right-hand
\* matrix already transposed (rows of y are the columns of the right
\* factor), so it computes x . y^T.
TfsMatmul(x, y) ==
    [val |-> TfMatmul(x.val, Transpose(y)), dec |-> TfMatmul(x.dec, Transpose(y))]

\* tfs.matmul(x, y), y a tf_seal tensor
TfsMatmulEnc(x, y) ==
    [val |-> TfMatmul(x.val, Transpose(y.val)),
     dec |-> TfMatmul(x.dec, Transpose(y.dec))]

\* mutant: the coefficients in descending order of power
CoeffsDescending == <<0 - 4, 0, 197, 500>>

\* coeffs = np.array([0.5, 0.197, 0.0, -0.004]), in thousandths
Coeffs == <<500, 197, 0, 0 - 4>>

RECURSIVE Pow(_, _)
Pow(x, n) == IF n = 0 THEN 1 ELSE x * Pow(x, n - 1)

\* tfs.poly_eval on one entry: sum of coeffs[k] * x^(k-1), coefficients in
\* ascending order of power
RECURSIVE PolyEval1(_, _, _)
PolyEval1(x, coeffs, k) ==
    IF k = 0 THEN 0 ELSE coeffs[k] * Pow(x, k - 1) + PolyEval1(x, coeffs, k - 1)

PolyEvalMat(M, coeffs) ==
    [i \in 1..Rows(M) |-> [j \in 1..Cols(M) |-> PolyEval1(M[i][j], coeffs, Len(coeffs))]]

\* tfs.poly_eval(x, coeffs) on a tf_seal tensor
TfsPolyEval(x, coeffs) ==
    [val |-> PolyEvalMat(x.val, coeffs), dec |-> PolyEvalMat(x.dec, coeffs)]

\* def sigmoid(x)
sigmoid(x) == TfsPolyEval(x, Coeffs)

\* tf.sigmoid(z): the exact logistic function of z, kept symbolic
TfSigmoid(z) == [sigmoid_of |-> z]

\* def tf_log_reg(x, y)
tf_log_reg(x, y) == LET z == TfMatmul(x, y) IN TfSigmoid(z)

\* sess.run on a tf_seal tensor decrypts it
SessRunSeal(t) == t.dec

\* sess.run on a TensorFlow tensor returns its value
SessRunTf(t) == t

\* ---------------------------------------------------------------- timing
\* int(1000000*(fin - ini))/1000000: the elapsed time cut to whole
\* microseconds (clock readings are in ticks)
Micros(ini, fin) == (fin - ini) \div TicksPerMicro

\* mutant: the ratio taken of the two printed, truncated times
RatioOfMicros(ini1, fin1, ini2, fin2) ==
    IF Micros(ini2, fin2) = 0 THEN [raised |-> TRUE, value |-> 0]
    ELSE [raised |-> FALSE, value |-> Micros(ini1, fin1) \div Micros(ini2, fin2)]

\* int((fin1 - ini1)/(fin2 - ini2)); a zero divisor raises ZeroDivisionError
Ratio(ini1, fin1, ini2, fin2) ==
    IF fin2 - ini2 = 0 THEN [raised |-> TRUE, value |-> 0]
    ELSE [raised |-> FALSE, value |-> (fin1 - ini1) \div (fin2 - ini2)]

\* ---------------------------------------------------------------- state
VARIABLES
    kernel,      \* which notebook the kernel runs: "nb1" or "nb2"
    pc,          \* the next cell to run
    keys,        \* public_keys, secret_key
    a_plain, b_plain, a, b, c, d, tf_d,   \* the notebook's Python variables
    times,       \* time_ini1, time_fin1, time_ini2, time_fin2
    clock,       \* time.process_time() of the kernel process, in ticks
    out,         \* what the cell run last has printed
    calls        \* the library calls made so far, in order

VARIABLES
    pages,       \* the MainPage object built from each version of MainPage.xaml.cs
    Frequency,   \* Stopwatch.Frequency of the device, ticks per second
    lastOp,      \* the operation performed last on the page
    lastValue,   \* the value assigned last to LabelText
    assigns,     \* the number of assignments to LabelText so far
    lastRead     \* what the last read of LabelText returned, per version

VARIABLES
    program,     \* which C# timing program runs
    mpc,         \* where that program is: "setup", "loop", "print", "done"
    iter,        \* the loop variable i of its for loop
    stopWatch,   \* the Stopwatch: IsRunning, ElapsedTicks
    result,      \* List<double> result
    output,      \* the lines written to the console, or the string built for LabelText
    bodyRuns     \* how often the loop body has run while the stopwatch was running

pagevars == <<pages, Frequency, lastOp, lastValue, assigns, lastRead>>

VARIABLES
    holds,       \* per program variable: the kind of value it holds and who made it
    ops          \* the operations executed so far: who performed them, on which kinds

mainvars == <<program, mpc, iter, stopWatch, result, output, bodyRuns>>

flowvars == <<holds, ops>>

FlowInit == holds = {} /\ ops = {}

MainIdle ==
    /\ program = "none" /\ mpc = "done" /\ iter = 0
    /\ stopWatch = [IsRunning |-> FALSE, ElapsedTicks |-> 0]
    /\ result = <<>> /\ output = <<>> /\ bodyRuns = 0

nbvars == <<kernel, pc, keys, a_plain, b_plain, a, b, c, d, tf_d, times, clock, out, calls>>

NoTimes == [ini1 |-> 0, fin1 |-> 0, ini2 |-> 0, fin2 |-> 0]

PageIdle ==
    /\ pages = <<>> /\ Frequency = 0 /\ lastOp = "none"
    /\ lastValue = <<>> /\ assigns = 0 /\ lastRead = <<>>

NbInit ==
    /\ PageIdle
    /\ MainIdle
    /\ FlowInit
    /\ kernel \in {"nb1", "nb2"}
    /\ pc = IF kernel = "nb1" THEN "keygen" ELSE "setup"
    /\ keys = "none"
    /\ a_plain = None /\ b_plain = None /\ a = None /\ b = None
    /\ c = None /\ d = None /\ tf_d = None
    /\ times = NoTimes
    /\ clock = 0
    /\ out = <<>>
    /\ calls = <<>>

\* ---------------------------------------------------------------- who computes on what
\* An operation of the code: what is called or applied, the variables
\* passed, the variables assigned or written into.
Op(callee, args, writes) == [callee |-> callee, args |-> args, writes |-> writes]

Range(seq) == {seq[k] : k \in DOMAIN seq}

\* Functions, constructors and methods of TF SEAL (import tf_seal as tfs)
\* and of SEAL (using Microsoft.Research.SEAL), and sess.run, which
\* executes the TF SEAL kernels of the tensors it is given.
TfSealCalls ==
    {"tfs.seal_key_gen", "tfs.constant", "tfs.matmul", "tfs.poly_eval", "sess.run"}
SealCalls ==
    {"new EncryptionParameters", "parms.PolyModulusDegree", "CoeffModulus.Create",
     "parms.CoeffModulus", "new SEALContext", "new KeyGenerator",
     "keygen.PublicKey", "keygen.SecretKey", "new Encryptor", "new Decryptor",
     "new CKKSEncoder", "new Plaintext", "new Ciphertext",
     "encoder.Encode", "encryptor.Encrypt", "decryptor.Decrypt", "encoder.Decode"}

\* Functions and methods of numpy, TensorFlow, the Python and .NET runtimes.
OtherLibraryCalls ==
    {"np.random.normal", "np.ones", "np.array", "astype", "transpose", "print",
     "tf.matmul", "tf.sigmoid", "time.process_time",
     "Math.Pow", "new List<double>", "new Stopwatch", "stopWatch.Start",
     "stopWatch.Stop", "stopWatch.ElapsedTicks", "stopWatch.ElapsedMilliseconds",
     "Stopwatch.Frequency", "ToString", "Console.WriteLine"}

\* who performs an operation; what is none of the library calls is an
\* operator or expression the code evaluates itself
Doer(callee) ==
    IF callee \in TfSealCalls \cup SealCalls THEN "crypto library"
    ELSE IF callee \in OtherLibraryCalls THEN "other library"
    ELSE "code"

\* the kind of value an operation produces
Gives(callee) ==
    IF callee \in {"tfs.seal_key_gen", "new KeyGenerator", "keygen.PublicKey",
                   "keygen.SecretKey"} THEN "key"
    ELSE IF callee \in {"tfs.constant", "tfs.matmul", "tfs.poly_eval",
                        "new Ciphertext", "encryptor.Encrypt"} THEN "ciphertext"
    ELSE IF callee \in {"new Plaintext", "encoder.Encode", "decryptor.Decrypt"}
         THEN "plaintext-encoding"
    ELSE IF callee \in {"new EncryptionParameters", "parms.PolyModulusDegree",
                        "CoeffModulus.Create", "parms.CoeffModulus", "new SEALContext",
                        "new Encryptor", "new Decryptor", "new CKKSEncoder"}
         THEN "SEAL object"
    ELSE IF callee \in {"time.process_time", "new Stopwatch", "stopWatch.Start",
                        "stopWatch.Stop", "stopWatch.ElapsedTicks",
                        "stopWatch.ElapsedMilliseconds", "Stopwatch.Frequency"}
         THEN "time"
    ELSE IF callee \in {"ToString", "string + string"} THEN "text"
    ELSE "number"

\* the kinds of the values passed to an operation
Takes(op, h) ==
    LET passed == Range(op.args)
    IN  {x.kind : x \in {y \in h : y.var \in passed}}

\* the variables after an operation: what it writes now holds what it gives
Store(op, h) ==
    {x \in h : x.var \notin op.writes}
        \cup {[var |-> v, kind |-> Gives(op.callee), by |-> Doer(op.callee)] : v \in op.writes}

\* the record kept of an executed operation
Entry(op, h) ==
    [callee |-> op.callee, by |-> Doer(op.callee),
     takes |-> Takes(op, h), gives |-> Gives(op.callee), writes |-> op.writes]

RECURSIVE HeldAfter(_, _)
HeldAfter(seq, h) ==
    IF seq = <<>> THEN h ELSE HeldAfter(Tail(seq), Store(Head(seq), h))

RECURSIVE Entries(_, _)
Entries(seq, h) ==
    IF seq = <<>> THEN {}
    ELSE {Entry(Head(seq), h)} \cup Entries(Tail(seq), Store(Head(seq), h))

\* executing the operations of a cell or program step, in order
Run(seq) ==
    /\ holds' = HeldAfter(seq, holds)
    /\ ops' = ops \cup Entries(seq, holds)

\* ---------------------------------------------------------------- notebook 1
\* The operations of each cell, with the variables they pass and assign.
KeyGenOps == <<Op("tfs.seal_key_gen", <<>>, {"public_keys", "secret_key"})>>
AddEncryptOps ==
    <<Op("np.random.normal", <<>>, {"a_plain"}),
      Op("astype", <<"a_plain">>, {"a_plain"}),
      Op("print", <<"a_plain">>, {}),
      Op("tfs.constant", <<"a_plain", "secret_key", "public_keys">>, {"a"})>>
AddOnesOps ==
    <<Op("np.ones", <<>>, {"b"}), Op("astype", <<"b">>, {"b"})>>
AddMatmulOps ==
    <<Op("transpose", <<"b">>, {"b.transpose()"}),
      Op("tfs.matmul", <<"a", "b.transpose()">>, {"c"}),
      Op("tf.matmul", <<"a_plain", "b">>, {"d"})>>
AddSessionOps ==
    <<Op("sess.run", <<"c">>, {"sess.run(c)"}),
      Op("print", <<"sess.run(c)">>, {}),
      Op("sess.run", <<"d">>, {"sess.run(d)"}),
      Op("print", <<"sess.run(d)">>, {})>>
MulOps ==
    <<Op("np.random.normal", <<>>, {"a_plain"}),
      Op("astype", <<"a_plain">>, {"a_plain"}),
      Op("np.random.normal", <<>>, {"b_plain"}),
      Op("astype", <<"b_plain">>, {"b_plain"}),
      Op("print", <<"a_plain">>, {}),
      Op("print", <<"b_plain">>, {}),
      Op("tfs.constant", <<"a_plain", "secret_key", "public_keys">>, {"a"}),
      Op("tfs.constant", <<"b_plain", "secret_key", "public_keys">>, {"b"}),
      Op("tfs.matmul", <<"a", "b">>, {"c"}),
      Op("tf.matmul", <<"a_plain", "b_plain">>, {"d"})>> \o AddSessionOps

\* The library calls of each cell, in the order the cell makes them.
KeyGenCalls == <<"tfs.seal_key_gen">>
AddEncryptCalls == <<"np.random.normal", "print(a_plain)", "tfs.constant">>
AddOnesCalls == <<"np.ones">>
AddMatmulCalls == <<"tfs.matmul", "tf.matmul">>
AddSessionCalls == <<"sess.run(c)", "print(SEAL)", "sess.run(d)", "print(Plain)">>
MulCalls ==
    <<"np.random.normal", "np.random.normal", "print(a_plain)", "print(b_plain)",
      "tfs.constant", "tfs.constant", "tfs.matmul", "tf.matmul",
      "sess.run(c)", "print(SEAL)", "sess.run(d)", "print(Plain)">>

\* mutant: b passed without .transpose()
AddC_NoTranspose(ta, mb) == TfsMatmul(ta, mb)

\* c = tfs.matmul(a, b.transpose())
AddC(ta, mb) == TfsMatmul(ta, Transpose(mb))
\* d = tf.matmul(a_plain, b)
AddD(ma, mb) == TfMatmul(ma, mb)
\* c = tfs.matmul(a, b), both encrypted
MulC(ta, tb) == TfsMatmulEnc(ta, tb)
\* d = tf.matmul(a_plain, b_plain)
MulD(ma, mb) == TfMatmul(ma, mb)

\* public_keys, secret_key = tfs.seal_key_gen(gen_relin=True, gen_galois=True)
KeyGenCell ==
    /\ kernel = "nb1" /\ pc = "keygen"
    /\ Run(KeyGenOps)
    /\ keys' = "generated"
    /\ calls' = calls \o KeyGenCalls
    /\ out' = <<>>
    /\ pc' = "add_encrypt"
    /\ UNCHANGED <<kernel, a_plain, b_plain, a, b, c, d, tf_d, times, clock>>
    /\ UNCHANGED pagevars
    /\ UNCHANGED mainvars

\* a_plain = np.random.normal(size=(1, 2)); print; a = tfs.constant(a_plain, ...)
AddEncryptCell ==
    /\ kernel = "nb1" /\ pc = "add_encrypt"
    /\ Run(AddEncryptOps)
    /\ \E m \in RandomNormal(1, 2), e \in NoiseOf(1, 2) :
          /\ a_plain' = m
          /\ out' = <<<<"a_plain =", m>>>>
          /\ a' = TfsConstant(m, e)
    /\ calls' = calls \o AddEncryptCalls
    /\ pc' = "add_b"
    /\ UNCHANGED <<kernel, keys, b_plain, b, c, d, tf_d, times, clock>>
    /\ UNCHANGED pagevars
    /\ UNCHANGED mainvars

\* b = np.ones((2, 1)).astype(np.float32)
AddOnesCell ==
    /\ kernel = "nb1" /\ pc = "add_b"
    /\ Run(AddOnesOps)
    /\ b' = Ones(2, 1)
    /\ out' = <<>>
    /\ calls' = calls \o AddOnesCalls
    /\ pc' = "add_matmul"
    /\ UNCHANGED <<kernel, keys, a_plain, b_plain, a, c, d, tf_d, times, clock>>
    /\ UNCHANGED pagevars
    /\ UNCHANGED mainvars

\* c = tfs.matmul(a, b.transpose()); d = tf.matmul(a_plain, b)
AddMatmulCell ==
    /\ kernel = "nb1" /\ pc = "add_matmul"
    /\ Run(AddMatmulOps)
    /\ c' = AddC(a, b)
    /\ d' = AddD(a_plain, b)
    /\ out' = <<>>
    /\ calls' = calls \o AddMatmulCalls
    /\ pc' = "add_session"
    /\ UNCHANGED <<kernel, keys, a_plain, b_plain, a, b, tf_d, times, clock>>
    /\ UNCHANGED pagevars
    /\ UNCHANGED mainvars

\* with tf.compat.v1.Session() as sess: print(sess.run(c)); print(sess.run(d))
AddSessionCell ==
    /\ kernel = "nb1" /\ pc = "add_session"
    /\ Run(AddSessionOps)
    /\ out' = <<<<"SEAL: ", SessRunSeal(c)>>, <<"Plain:", SessRunTf(d)>>>>
    /\ calls' = calls \o AddSessionCalls
    /\ pc' = "mul"
    /\ UNCHANGED <<kernel, keys, a_plain, b_plain, a, b, c, d, tf_d, times, clock>>
    /\ UNCHANGED pagevars
    /\ UNCHANGED mainvars

\* the multiplication cell
MulCell ==
    /\ kernel = "nb1" /\ pc = "mul"
    /\ Run(MulOps)
    /\ \E ma \in RandomNormal(1, 1), mb \in RandomNormal(1, 1),
          ea \in NoiseOf(1, 1), eb \in NoiseOf(1, 1) :
          LET ta == TfsConstant(ma, ea)
              tb == TfsConstant(mb, eb)
              tc == MulC(ta, tb)
              td == MulD(ma, mb)
          IN  /\ a_plain' = ma /\ b_plain' = mb
              /\ a' = ta /\ b' = tb /\ c' = tc /\ d' = td
              /\ out' = <<<<"a_plain =", ma>>, <<"b_plain =", mb>>,
                          <<"SEAL: ", SessRunSeal(tc)>>, <<"Plain:", SessRunTf(td)>>>>
    /\ calls' = calls \o MulCalls
    /\ pc' = "done"
    /\ UNCHANGED <<kernel, keys, tf_d, times, clock>>
    /\ UNCHANGED pagevars
    /\ UNCHANGED mainvars

\* ---------------------------------------------------------------- notebook 2
\* sigmoid(c): the coefficients are built, c is handed on to tfs.poly_eval
SigmoidOps ==
    <<Op("np.array", <<>>, {"coeffs"}),
      Op("tfs.poly_eval", <<"c", "coeffs">>, {"d"})>>
\* tf_log_reg(a_plain, b)
TfLogRegOps ==
    <<Op("tf.matmul", <<"a_plain", "b">>, {"z"}),
      Op("tf.sigmoid", <<"z">>, {"tf_d"})>>
SetupOps ==
    <<Op("tfs.seal_key_gen", <<>>, {"public_keys", "secret_key"}),
      Op("np.random.normal", <<>>, {"a_plain"}),
      Op("astype", <<"a_plain">>, {"a_plain"}),
      Op("tfs.constant", <<"a_plain", "secret_key", "public_keys">>, {"a"}),
      Op("np.random.normal", <<>>, {"b"}),
      Op("astype", <<"b">>, {"b"}),
      Op("transpose", <<"b">>, {"b.transpose()"}),
      Op("tfs.matmul", <<"a", "b.transpose()">>, {"c"})>> \o SigmoidOps \o TfLogRegOps
SessionOps ==
    <<Op("time.process_time", <<>>, {"time_ini1"}),
      Op("sess.run", <<"d">>, {"temp"}),
      Op("time.process_time", <<>>, {"time_fin1"}),
      Op("print", <<"temp">>, {}),
      Op("time.process_time", <<>>, {"time_ini2"}),
      Op("sess.run", <<"tf_d">>, {"temp"}),
      Op("time.process_time", <<>>, {"time_fin2"}),
      Op("print", <<"temp">>, {}),
      Op("int(1000000*(fin - ini))/1000000", <<"time_fin1", "time_ini1">>, {"SEAL time"}),
      Op("print", <<"SEAL time">>, {}),
      Op("int(1000000*(fin - ini))/1000000", <<"time_fin2", "time_ini2">>, {"Norm time"}),
      Op("print", <<"Norm time">>, {}),
      Op("int((fin1 - ini1)/(fin2 - ini2))",
         <<"time_fin1", "time_ini1", "time_fin2", "time_ini2">>, {"ratio"}),
      Op("print", <<"ratio">>, {})>>

\* mutant: the input encrypted before the keys are generated
SetupCallsEncryptFirst ==
    <<"np.random.normal", "tfs.constant", "tfs.seal_key_gen", "np.random.normal",
      "tfs.matmul", "tfs.poly_eval", "tf.matmul", "tf.sigmoid">>

SetupCalls ==
    <<"tfs.seal_key_gen", "np.random.normal", "tfs.constant", "np.random.normal",
      "tfs.matmul", "tfs.poly_eval", "tf.matmul", "tf.sigmoid">>
SessionCalls ==
    <<"print(header)", "time.process_time", "sess.run(d)", "time.process_time",
      "print(temp:d)", "print(header)", "print(header)",
      "time.process_time", "sess.run(tf_d)", "time.process_time", "print(temp:tf_d)",
      "print(SEAL time)", "print(Norm time)", "print(ratio)">>

\* mutant: b passed without .transpose()
LogRegC_NoTranspose(ta, mb) == TfsMatmul(ta, mb)

\* c = tfs.matmul(a, b.transpose())
LogRegC(ta, mb) == TfsMatmul(ta, Transpose(mb))

\* key generation, the encrypted input, the public weights, both pipelines
SetupCell ==
    /\ kernel = "nb2" /\ pc = "setup"
    /\ Run(SetupOps)
    /\ keys' = "generated"
    /\ \E ma \in RandomNormal(2, 2), e \in NoiseOf(2, 2), mb \in RandomNormal(2, 2) :
          LET ta == TfsConstant(ma, e)
              tc == LogRegC(ta, mb)
          IN  /\ a_plain' = ma /\ a' = ta /\ b' = mb
              /\ c' = tc
              /\ d' = sigmoid(tc)
              /\ tf_d' = tf_log_reg(ma, mb)
    /\ out' = <<>>
    /\ calls' = calls \o SetupCalls
    /\ pc' = "session"
    /\ UNCHANGED <<kernel, b_plain, times, clock>>
    /\ UNCHANGED pagevars
    /\ UNCHANGED mainvars

\* the timed session cell; each sess.run consumes CPU time
SessionCell ==
    /\ kernel = "nb2" /\ pc = "session"
    /\ Run(SessionOps)
    /\ \E e1 \in 1..MaxTick, e2 \in 1..MaxTick :
          LET ini1 == clock
              fin1 == ini1 + e1
              ini2 == fin1
              fin2 == ini2 + e2
              ratio == Ratio(ini1, fin1, ini2, fin2)
              head == <<<<"TF SEAL Logistic Regression", None>>,
                        <<"temp", SessRunSeal(d)>>,
                        <<"Approximately Equals", None>>,
                        <<"Tensorflow Logistic Regression", None>>,
                        <<"temp", SessRunTf(tf_d)>>,
                        <<"SEAL time:", Micros(ini1, fin1)>>,
                        <<"Norm time:", Micros(ini2, fin2)>>>>
          IN  /\ times' = [ini1 |-> ini1, fin1 |-> fin1, ini2 |-> ini2, fin2 |-> fin2]
              /\ clock' = fin2
              /\ out' = IF ratio.raised THEN head \o <<<<"ZeroDivisionError", None>>>>
                         ELSE head \o <<<<"SEAL is about", ratio.value>>>>
    /\ calls' = calls \o SessionCalls
    /\ pc' = "done"
    /\ UNCHANGED <<kernel, keys, a_plain, b_plain, a, b, c, d, tf_d>>
    /\ UNCHANGED pagevars
    /\ UNCHANGED mainvars

NbNext ==
    \/ KeyGenCell \/ AddEncryptCell \/ AddOnesCell \/ AddMatmulCell
    \/ AddSessionCell \/ MulCell
    \/ SetupCell \/ SessionCell

vars == <<nbvars, pagevars, mainvars, flowvars>>
Init == NbInit
Next == NbNext
Spec == Init /\ [][Next]_vars

\* ---------------------------------------------------------------- MainPage
\* "step": the class assembled from the step-by-step cells (backing field
\* labelText); "final": the file shown as the final MainPage.xaml.cs.
Versions == {"step", "final"}

MaxStack == 3     \* frames of LabelText accessors the stack holds before overflowing
MaxFreq == 3      \* Stopwatch.Frequency lies in 1..MaxFreq
MaxElapsed == 2   \* stopWatch.ElapsedTicks lies in 0..MaxElapsed
MaxAssigns == 4   \* assignments to LabelText explored

\* a string; the output string carries its two formatted numbers
Str(s) == [text |-> s, encdec |-> <<>>, time |-> 0]
Null == Str("null")
Empty == Str("")
Hello == Str("Hello, press button to start")

\* 2.718281828459 as <<integer part, decimals 1-6, decimals 7-12>>
Original == <<2, 718281, 828459>>

\* the value the CKKS encode/encrypt/decrypt/decode round trip gives back
\* for x: x up to an error of e units of the twelfth decimal
RoundTrip(x, e) == <<x[1], x[2], x[3] + e>>

\* (1.0 * ElapsedTicks / Frequency).ToString("##.###"): the quotient
\* rounded to three decimals, in thousandths
FormatTime(ticks, freq) == (2000 * ticks + freq) \div (2 * freq)

\* the string Handle_Clicked assigns to LabelText; decoded is result[0],
\* of which ToString("#.############") prints twelve decimals
OutputText(decoded, ticks, freq) ==
    [text |-> "Original: 2.718281828459\nEnc/Dec: #\nTime taken: #ms on average per enc/dec",
     encdec |-> decoded,
     time |-> FormatTime(ticks, freq)]

\* get { return labelText; }  /  get { return LabelText; }
RECURSIVE get_LabelText(_, _, _)
get_LabelText(ver, page, depth) ==
    IF ver = "step" THEN [overflow |-> FALSE, value |-> page.labelText]
    ELSE IF depth >= MaxStack THEN [overflow |-> TRUE, value |-> Null]
    ELSE get_LabelText(ver, page, depth + 1)

\* the Label bound with {Binding LabelText} reads the property of the
\* BindingContext; a stack overflow ends the process
ApplyBinding(ver, page) ==
    IF page.BindingContext # "this" THEN page
    ELSE LET g == get_LabelText(ver, page, 0)
         IN  IF g.overflow THEN [page EXCEPT !.status = "crashed"]
             ELSE [page EXCEPT !.label = g.value]

\* OnPropertyChanged(nameof(LabelText)): raises PropertyChanged, on which
\* the binding refreshes the label
OnPropertyChanged(ver, page) ==
    ApplyBinding(ver, [page EXCEPT !.notified = @ + 1])

\* set { labelText = value; OnPropertyChanged(...); }  /
\* set { LabelText = value; OnPropertyChanged(...); }
RECURSIVE set_LabelText(_, _, _, _)
set_LabelText(ver, page, value, depth) ==
    IF ver = "step" THEN OnPropertyChanged(ver, [page EXCEPT !.labelText = value])
    ELSE IF depth >= MaxStack THEN [page EXCEPT !.status = "crashed"]
    ELSE LET p == set_LabelText(ver, page, value, depth + 1)
         IN  IF p.status = "crashed" THEN p ELSE OnPropertyChanged(ver, p)

\* the object before the constructor body runs
NewPage ==
    [status |-> "alive", labelText |-> Null, BindingContext |-> "null",
     notified |-> 0, label |-> Empty]

\* public MainPage()
MainPage(ver) ==
    LET p1 == ApplyBinding(ver, [NewPage EXCEPT !.BindingContext = "this"])
    IN  IF p1.status = "crashed" THEN p1 ELSE set_LabelText(ver, p1, Hello, 0)

\* void Handle_Clicked(object sender, System.EventArgs e)
Handle_Clicked(ver, page, decoded, ticks, freq) ==
    IF page.status # "alive" THEN page
    ELSE set_LabelText(ver, page, OutputText(decoded, ticks, freq), 0)

\* an assignment LabelText = v from outside the class
Assign(ver, page, v) ==
    IF page.status # "alive" THEN page ELSE set_LabelText(ver, page, v, 0)

\* a read of LabelText from outside the class
Read(ver, page) ==
    IF page.status # "alive" THEN [overflow |-> TRUE, value |-> Null]
    ELSE get_LabelText(ver, page, 0)

NbIdle ==
    /\ kernel = "app" /\ pc = "done" /\ keys = "none"
    /\ a_plain = None /\ b_plain = None /\ a = None /\ b = None
    /\ c = None /\ d = None /\ tf_d = None
    /\ times = NoTimes /\ clock = 0 /\ out = <<>> /\ calls = <<>>

PageInit ==
    /\ NbIdle
    /\ MainIdle
    /\ FlowInit
    /\ pages = <<>>
    /\ Frequency \in 1..MaxFreq
    /\ lastOp = "none"
    /\ lastValue = Null
    /\ assigns = 0
    /\ lastRead = <<>>

\* the app starts: new MainPage()
Construct ==
    /\ lastOp = "none"
    /\ pages' = [ver \in Versions |-> MainPage(ver)]
    /\ lastOp' = "construct"
    /\ lastValue' = Hello
    /\ assigns' = 1
    /\ UNCHANGED <<Frequency, lastRead>>
    /\ UNCHANGED nbvars
    /\ UNCHANGED mainvars
    /\ UNCHANGED flowvars

\* the user presses the button
Click ==
    /\ lastOp # "none" /\ assigns < MaxAssigns
    /\ \E e \in Noise, ticks \in 0..MaxElapsed :
          /\ pages' = [ver \in Versions |->
                          Handle_Clicked(ver, pages[ver], RoundTrip(Original, e), ticks, Frequency)]
          /\ lastValue' = OutputText(RoundTrip(Original, e), ticks, Frequency)
    /\ lastOp' = "click"
    /\ assigns' = assigns + 1
    /\ UNCHANGED <<Frequency, lastRead>>
    /\ UNCHANGED nbvars
    /\ UNCHANGED mainvars
    /\ UNCHANGED flowvars

SetOp ==
    /\ lastOp # "none" /\ assigns < MaxAssigns
    /\ \E v \in {Str("A"), Str("B")} :
          /\ pages' = [ver \in Versions |-> Assign(ver, pages[ver], v)]
          /\ lastValue' = v
    /\ lastOp' = "set"
    /\ assigns' = assigns + 1
    /\ UNCHANGED <<Frequency, lastRead>>
    /\ UNCHANGED nbvars
    /\ UNCHANGED mainvars
    /\ UNCHANGED flowvars

GetOp ==
    /\ lastOp # "none"
    /\ lastRead' = [ver \in Versions |-> Read(ver, pages[ver])]
    /\ pages' = [ver \in Versions |->
                    IF lastRead'[ver].overflow THEN [pages[ver] EXCEPT !.status = "crashed"]
                    ELSE pages[ver]]
    /\ lastOp' = "get"
    /\ UNCHANGED <<Frequency, lastValue, assigns>>
    /\ UNCHANGED nbvars
    /\ UNCHANGED mainvars
    /\ UNCHANGED flowvars

PageNext == Construct \/ Click \/ SetOp \/ GetOp

SpecPage == PageInit /\ [][PageNext]_vars

\* ---------------------------------------------------------------- C# timing programs
\* The programs that time 1000 round trips and report the average:
\* test.Main printing ElapsedMilliseconds/1000.0, test.Main printing
\* ElapsedTicks/Frequency, and the body of MainPage.Handle_Clicked.
Programs == {"Main_ElapsedMilliseconds", "Main_ElapsedTicks", "Handle_Clicked"}

\* for (int i = 0; i < 1000; i++)
LoopCount == 1000

\* mutant: the loop condition with <= in place of <
LoopConditionInclusive(k) == k <= LoopCount

LoopCondition(k) == k < LoopCount

\* Stopwatch.ElapsedMilliseconds, a long: the elapsed time in whole
\* milliseconds, the fraction cut off
ElapsedMilliseconds(ticks, freq) == (1000 * ticks) \div freq

\* (stopWatch.ElapsedMilliseconds/1000.0).ToString(): a number with at
\* most three decimals, held in thousandths
AverageOfMilliseconds(ticks, freq) == ElapsedMilliseconds(ticks, freq)

\* a console line; like the output string it carries its formatted numbers
Line(s, decoded, t) == [text |-> s, encdec |-> decoded, time |-> t]

\* the three Console.WriteLine calls of the ElapsedMilliseconds program
WriteLinesMilliseconds(decoded, ticks, freq) ==
    <<Line("2.718281828459", <<>>, 0),
      Line("#", decoded, 0),
      Line("Average Time taken: #ms", <<>>, AverageOfMilliseconds(ticks, freq))>>

\* the three Console.WriteLine calls of the ElapsedTicks program
WriteLinesTicks(decoded, ticks, freq) ==
    <<Line("Original:   2.718281828459", <<>>, 0),
      Line("Enc/Dec:    #", decoded, 0),
      Line("Time taken: #ms on average per enc/dec", <<>>, FormatTime(ticks, freq))>>

\* the statements of Main (and of Handle_Clicked) up to the loop
MainSetupOps ==
    <<Op("new EncryptionParameters", <<>>, {"parms"}),
      Op("polyModulusDegree = 8192", <<>>, {"polyModulusDegree"}),
      Op("parms.PolyModulusDegree", <<"parms", "polyModulusDegree">>, {"parms"}),
      Op("new int[]{ 60, 40, 40, 60 }", <<>>, {"bitSizes"}),
      Op("CoeffModulus.Create", <<"polyModulusDegree", "bitSizes">>, {"coeffModulus"}),
      Op("parms.CoeffModulus", <<"parms", "coeffModulus">>, {"parms"}),
      Op("Math.Pow", <<>>, {"scale"}),
      Op("new SEALContext", <<"parms">>, {"context"}),
      Op("Console.WriteLine", <<>>, {}),
      Op("new KeyGenerator", <<"context">>, {"keygen"}),
      Op("keygen.PublicKey", <<"keygen">>, {"publicKey"}),
      Op("keygen.SecretKey", <<"keygen">>, {"secretKey"}),
      Op("new Encryptor", <<"context", "publicKey">>, {"encryptor"}),
      Op("new Decryptor", <<"context", "secretKey">>, {"decryptor"}),
      Op("new CKKSEncoder", <<"context">>, {"encoder"}),
      Op("new Plaintext", <<>>, {"xPlain"}),
      Op("new Plaintext", <<>>, {"plainResult"}),
      Op("new Ciphertext", <<>>, {"x1Encrypted"}),
      Op("new List<double>", <<>>, {"result"}),
      Op("new Stopwatch", <<>>, {"stopWatch"}),
      Op("stopWatch.Start", <<"stopWatch">>, {"stopWatch"}),
      Op("i = 0", <<>>, {"i"})>>

\* mutant: the decoding done by the code itself on the Plaintext
LoopBodyOpsOwnDecode ==
    <<Op("i < 1000", <<"i">>, {}),
      Op("encoder.Encode", <<"encoder", "scale", "xPlain">>, {"xPlain"}),
      Op("encryptor.Encrypt", <<"encryptor", "xPlain", "x1Encrypted">>, {"x1Encrypted"}),
      Op("decryptor.Decrypt", <<"decryptor", "x1Encrypted", "plainResult">>, {"plainResult"}),
      Op("plainResult[0] / scale", <<"plainResult", "scale">>, {"result"}),
      Op("i++", <<"i">>, {"i"})>>

\* the loop test, the four calls of the body, the increment
LoopBodyOps ==
    <<Op("i < 1000", <<"i">>, {}),
      Op("encoder.Encode", <<"encoder", "scale", "xPlain">>, {"xPlain"}),
      Op("encryptor.Encrypt", <<"encryptor", "xPlain", "x1Encrypted">>, {"x1Encrypted"}),
      Op("decryptor.Decrypt", <<"decryptor", "x1Encrypted", "plainResult">>, {"plainResult"}),
      Op("encoder.Decode", <<"encoder", "plainResult", "result">>, {"result"}),
      Op("i++", <<"i">>, {"i"})>>

LoopExitOps ==
    <<Op("i < 1000", <<"i">>, {}),
      Op("stopWatch.Stop", <<"stopWatch">>, {"stopWatch"})>>

\* the statements after stopWatch.Stop()
ReportOps(prog) ==
    IF prog = "Main_ElapsedMilliseconds"
    THEN <<Op("Console.WriteLine", <<>>, {}),
           Op("result[0]", <<"result">>, {"result[0]"}),
           Op("Console.WriteLine", <<"result[0]">>, {}),
           Op("stopWatch.ElapsedMilliseconds", <<"stopWatch">>, {"elapsed"}),
           Op("elapsed / 1000.0", <<"elapsed">>, {"average"}),
           Op("ToString", <<"average">>, {"text"}),
           Op("string + string", <<"text">>, {"text"}),
           Op("Console.WriteLine", <<"text">>, {})>>
    ELSE <<Op("ToString", <<>>, {"text"}),
           Op("string + string", <<"text">>, {"text"}),
           Op("result[0]", <<"result">>, {"result[0]"}),
           Op("ToString", <<"result[0]">>, {"text"}),
           Op("string + string", <<"text">>, {"text"}),
           Op("stopWatch.ElapsedTicks", <<"stopWatch">>, {"elapsed"}),
           Op("Stopwatch.Frequency", <<>>, {"frequency"}),
           Op("1.0 * elapsed / frequency", <<"elapsed", "frequency">>, {"average"}),
           Op("ToString", <<"average">>, {"text"}),
           Op("string + string", <<"text">>, {"text"}),
           IF prog = "Main_ElapsedTicks"
           THEN Op("Console.WriteLine", <<"text">>, {})
           ELSE Op("LabelText = value", <<"text">>, {"LabelText"})>>

MainInit ==
    /\ NbIdle
    /\ pages = <<>> /\ Frequency \in 1..MaxFreq /\ lastOp = "none"
    /\ lastValue = <<>> /\ assigns = 0 /\ lastRead = <<>>
    /\ program \in Programs
    /\ mpc = "setup"
    /\ iter = 0
    /\ stopWatch = [IsRunning |-> FALSE, ElapsedTicks |-> 0]
    /\ result = <<>>
    /\ output = <<>>
    /\ bodyRuns = 0
    /\ FlowInit

\* parameters, context, keys, encryptor, decryptor, encoder, the empty
\* Plaintext and Ciphertext objects; then stopWatch.Start() and int i = 0
MainSetup ==
    /\ mpc = "setup"
    /\ stopWatch' = [IsRunning |-> TRUE, ElapsedTicks |-> 0]
    /\ iter' = 0
    /\ mpc' = "loop"
    /\ UNCHANGED <<program, result, output, bodyRuns>>
    /\ Run(MainSetupOps)
    /\ UNCHANGED <<nbvars, pagevars>>

\* one pass of the loop body: Encode, Encrypt, Decrypt, Decode; then i++
LoopBody ==
    /\ mpc = "loop" /\ LoopCondition(iter)
    /\ \E e \in Noise : result' = <<RoundTrip(Original, e)>>
    /\ bodyRuns' = IF stopWatch.IsRunning THEN bodyRuns + 1 ELSE bodyRuns
    /\ iter' = iter + 1
    /\ UNCHANGED <<program, mpc, stopWatch, output>>
    /\ Run(LoopBodyOps)
    /\ UNCHANGED <<nbvars, pagevars>>

\* the loop condition fails; stopWatch.Stop() fixes the elapsed ticks
LoopExit ==
    /\ mpc = "loop" /\ ~LoopCondition(iter)
    /\ \E ticks \in 0..MaxElapsed :
          stopWatch' = [IsRunning |-> FALSE, ElapsedTicks |-> ticks]
    /\ mpc' = "print"
    /\ UNCHANGED <<program, iter, result, output, bodyRuns>>
    /\ Run(LoopExitOps)
    /\ UNCHANGED <<nbvars, pagevars>>

\* the Console.WriteLine calls, or the string Handle_Clicked builds for
\* LabelText
Report ==
    /\ mpc = "print"
    /\ output' =
          IF program = "Main_ElapsedMilliseconds"
          THEN WriteLinesMilliseconds(result[1], stopWatch.ElapsedTicks, Frequency)
          ELSE IF program = "Main_ElapsedTicks"
          THEN WriteLinesTicks(result[1], stopWatch.ElapsedTicks, Frequency)
          ELSE <<OutputText(result[1], stopWatch.ElapsedTicks, Frequency)>>
    /\ mpc' = "done"
    /\ UNCHANGED <<program, iter, stopWatch, result, bodyRuns>>
    /\ Run(ReportOps(program))
    /\ UNCHANGED <<nbvars, pagevars>>

MainNext == MainSetup \/ LoopBody \/ LoopExit \/ Report

SpecMain == MainInit /\ [][MainNext]_vars

\* ---------------------------------------------------------------- all programs that use encryption
AllInit == NbInit \/ MainInit
AllNext == NbNext \/ MainNext
SpecAll == AllInit /\ [][AllNext]_vars

\* ---------------------------------------------------------------- properties: MainPage

\* C2: assigning a string v to LabelText stores v, so that the next read of
\* LabelText returns v, and raises exactly one PropertyChanged notification
\* per assignment (stated for the class of every version of the file).
C2_SetStoresAndNotifies ==
    \A ver \in Versions :
        lastOp \in {"construct", "click", "set"} =>
            /\ Read(ver, pages[ver]) = [overflow |-> FALSE, value |-> lastValue]
            /\ pages[ver].notified = assigns

\* C3: the final MainPage.xaml.cs behaves like the class built step by step:
\* after every sequence of construct, set, get and click the two objects have
\* the same stored state, notifications and label text, and reads agree.
C3_FinalEqualsStepByStep ==
    lastOp # "none" =>
        /\ pages["final"] = pages["step"]
        /\ lastRead # <<>> => lastRead["final"] = lastRead["step"]

\* C4: every press of the button (the first and every later one) is followed
\* by LabelText, and the label bound to it, holding the three-part output
\* string of that press.
C4_PressShowsOutput ==
    \A ver \in Versions :
        lastOp = "click" =>
            /\ Read(ver, pages[ver]) = [overflow |-> FALSE, value |-> lastValue]
            /\ pages[ver].label = lastValue
            /\ lastValue.text =
                 "Original: 2.718281828459\nEnc/Dec: #\nTime taken: #ms on average per enc/dec"

\* C5: once the constructor has run, BindingContext is the page itself and
\* LabelText reads "Hello, press button to start"; the label shows that text
\* until the first button press.
C5_ConstructorInitialises ==
    \A ver \in Versions :
        (lastOp # "none" /\ assigns = 1) =>
            /\ pages[ver].status = "alive"
            /\ pages[ver].BindingContext = "this"
            /\ Read(ver, pages[ver]) = [overflow |-> FALSE, value |-> Hello]
            /\ pages[ver].label = Hello

\* ---------------------------------------------------------------- properties: notebooks

IsPrefix(u, v) == Len(u) <= Len(v) /\ u = SubSeq(v, 1, Len(u))

\* the one order of the library calls of each notebook
FixedOrder(k) ==
    IF k = "nb1"
    THEN <<"tfs.seal_key_gen",
           "np.random.normal", "print(a_plain)", "tfs.constant", "np.ones",
           "tfs.matmul", "tf.matmul",
           "sess.run(c)", "print(SEAL)", "sess.run(d)", "print(Plain)",
           "np.random.normal", "np.random.normal", "print(a_plain)", "print(b_plain)",
           "tfs.constant", "tfs.constant", "tfs.matmul", "tf.matmul",
           "sess.run(c)", "print(SEAL)", "sess.run(d)", "print(Plain)">>
    ELSE <<"tfs.seal_key_gen", "np.random.normal", "tfs.constant", "np.random.normal",
           "tfs.matmul", "tfs.poly_eval", "tf.matmul", "tf.sigmoid",
           "print(header)", "time.process_time", "sess.run(d)", "time.process_time",
           "print(temp:d)", "print(header)", "print(header)",
           "time.process_time", "sess.run(tf_d)", "time.process_time",
           "print(temp:tf_d)", "print(SEAL time)", "print(Norm time)", "print(ratio)">>

\* the phase of a call in the encrypted pipeline: 1 key generation,
\* 2 encryption, 3 construction of the computation, 4 the session run that
\* evaluates it, 5 printing its result; 0 for any other call
Phase(k, call) ==
    IF call = "tfs.seal_key_gen" THEN 1
    ELSE IF call = "tfs.constant" THEN 2
    ELSE IF call \in {"tfs.matmul", "tfs.poly_eval"} THEN 3
    ELSE IF call = (IF k = "nb1" THEN "sess.run(c)" ELSE "sess.run(d)") THEN 4
    ELSE IF call = (IF k = "nb1" THEN "print(SEAL)" ELSE "print(temp:d)") THEN 5
    ELSE 0

\* the phases never go backwards along the calls of one program
PhasesInOrder(k, seq) ==
    \A i, j \in 1..Len(seq) :
        (i < j /\ Phase(k, seq[i]) > 0 /\ Phase(k, seq[j]) > 0) =>
            Phase(k, seq[i]) <= Phase(k, seq[j])

\* the calls of the addition program and of the multiplication program of
\* notebook 1 (both use the keys of the one key generation), and of the
\* logistic regression program of notebook 2
AdditionCalls == SubSeq(calls, 1, IF Len(calls) < 11 THEN Len(calls) ELSE 11)
MultiplicationCalls ==
    IF Len(calls) <= 11 THEN <<>> ELSE <<calls[1]>> \o SubSeq(calls, 12, Len(calls))

\* C1: in every run of the TF SEAL programs the library calls happen in one
\* fixed order that does not depend on the input values: key generation,
\* then encryption, then construction of the encrypted computation (matmul,
\* and sigmoid for logistic regression), then the session run, then printing.
C1_FixedCallOrder ==
    kernel \in {"nb1", "nb2"} =>
        /\ IsPrefix(calls, FixedOrder(kernel))
        /\ pc = "done" => calls = FixedOrder(kernel)
        /\ IF kernel = "nb1"
           THEN PhasesInOrder(kernel, AdditionCalls) /\ PhasesInOrder(kernel, MultiplicationCalls)
           ELSE PhasesInOrder(kernel, calls)
        /\ calls # <<>> => calls[1] = "tfs.seal_key_gen"

C1_Witness ==
    /\ pc = "done" /\ kernel = "nb2"
    /\ \E i \in 1..Len(calls) : calls[i] = "print(temp:d)"
    /\ a_plain # [i \in 1..2 |-> [j \in 1..2 |-> 0]]

AddDone == kernel = "nb1" /\ pc = "mul"
MulDone == kernel = "nb1" /\ pc = "done"
AddBuilt == kernel = "nb1" /\ pc \in {"add_session", "mul"}
LogRegBuilt == kernel = "nb2" /\ pc \in {"session", "done"}

C9_SigmoidPolynomial ==
    /\ Len(Coeffs) = 4 /\ Coeffs[3] = 0
    /\ LogRegBuilt =>
          \A i, j \in 1..2 :
              /\ d.val[i][j] = 500 + 197 * c.val[i][j]
                               - 4 * c.val[i][j] * c.val[i][j] * c.val[i][j]
              /\ d.dec[i][j] = 500 + 197 * c.dec[i][j]
                               - 4 * c.dec[i][j] * c.dec[i][j] * c.dec[i][j]

C9_Witness ==
    /\ LogRegBuilt
    /\ \E i, j \in 1..2 : c.dec[i][j] <= 0 - 2
    /\ \E i, j \in 1..2 : c.val[i][j] # c.dec[i][j]

Reported == output[Len(output)].time

\* C11, as stated: the loop body runs exactly 1000 times between
\* stopWatch.Start() and stopWatch.Stop(), and the reported number, read as
\* milliseconds, is exactly the loop's elapsed milliseconds
\* (1000 * ElapsedTicks / Frequency) divided by 1000.
C11_AverageIsTotalOverCount ==
    mpc = "done" =>
        /\ bodyRuns = LoopCount
        /\ Reported * Frequency * LoopCount = 1000 * 1000 * stopWatch.ElapsedTicks

\* C11, amended: the body runs exactly 1000 times while the stopwatch runs,
\* and the reported number is the elapsed milliseconds over 1000 with the
\* digits past the third decimal cut off (ElapsedMilliseconds program) or
\* rounded to three decimals (ElapsedTicks program and Handle_Clicked).
C11_AverageUpToThreeDecimals ==
    /\ mpc \in {"print", "done"} => bodyRuns = LoopCount /\ iter = LoopCount
    /\ mpc = "done" =>
          LET exact == 1000 * 1000 * stopWatch.ElapsedTicks
              unit == Frequency * LoopCount
          IN  IF program = "Main_ElapsedMilliseconds"
              THEN Reported * unit <= exact /\ exact < (Reported + 1) * unit
              ELSE 2 * Abs(Reported * unit - exact) <= unit

\* a run whose elapsed time has more than three decimals has been reported
C11_Witness ==
    /\ mpc = "done" /\ bodyRuns = LoopCount
    /\ (1000 * stopWatch.ElapsedTicks) % Frequency # 0
    /\ Len(output) >= 1

\* ---------------------------------------------------------------- properties: who computes on what
\* the kinds of value the code must leave to the library
Protected == {"key", "plaintext-encoding", "ciphertext"}

\* C12: every key, plaintext encoding and ciphertext is made by a call into
\* TF SEAL or SEAL, and every operation that is handed one or produces one
\* is such a call; the code's own operators and expressions are applied to
\* plain numbers, times and text only.
C12_CryptoOnlyInLibrary ==
    /\ \A x \in holds : x.kind \in Protected => x.by = "crypto library"
    /\ \A o \in ops :
          (o.takes \cap Protected # {} \/ o.gives \in Protected)
              => o.by = "crypto library"

\* keys and ciphertexts have been handed to operations, and the code has
\* evaluated expressions of its own
C12_Witness ==
    /\ \E o \in ops : "ciphertext" \in o.takes
    /\ \E o \in ops : "key" \in o.takes
    /\ \E o \in ops : o.by = "code"
    /\ \E x \in holds : x.kind = "ciphertext"

====
